---------------------------- MODULE Spec2Model ----------------------------
(***************************************************************************)
(* Model of src/utils.py: harmonize_names (fuzzy name harmonization) and   *)
(* abc_classification (ABC spend classification).                         *)
(*                                                                         *)
(* Strings are sequences of one-character strings.  A null cell of a      *)
(* string column is the one-element sequence Null.  Ratios (similarity,   *)
(* cumulative share, threshold, cutoffs) are kept as exact fractions:     *)
(* thresholds and cutoffs are integers in hundredths, and a comparison    *)
(* n/d >= p/100 is done as n*100 >= p*d.  On the small integers of the    *)
(* model the float comparison of the code gives the same answer.          *)
(***************************************************************************)
EXTENDS Integers, Sequences, FiniteSets, TLC

VARIABLES
    \* ---- harmonize_names ----
    series,        \* the input column (parameter series)
    threshold,     \* parameter threshold, in hundredths
    min_len,       \* parameter min_len
    max_uniques,   \* parameter max_uniques
    pc,            \* position in harmonize_names
    run,           \* 1: first call, 2: the call on the first call's canonical column
    s_raw,         \* local s_raw (line 72)
    s_norm,        \* local s_norm (line 73)
    freq,          \* local freq (line 79)
    uniques,       \* local uniques (line 75-77)
    idx,           \* position of the outer loop (line 83) in uniques
    assigned,      \* local assigned (line 81): function key -> seed
    clusters,      \* local clusters (line 82)
    canon_norm,    \* local canon_norm (line 103)
    canon_final,   \* returned canonical column
    mapping_df,    \* returned mapping table
    changed_mask,  \* returned changed mask
    raised,        \* an exception left harmonize_names
    \* ---- abc_classification ----
    df,            \* the input rows: <<group key, spend cell>>
    a_cut,         \* parameter a_cut, in hundredths
    b_cut,         \* parameter b_cut, in hundredths
    abc_pc,        \* position in abc_classification
    agg,           \* local agg (line 195): sequence of <<key cell, sum>>
    cls,           \* local cls (line 202): function key cell -> class
    result,        \* the returned column
    abc_raised,    \* an exception left abc_classification
    abc_run,       \* 1: first call, 2: the call on a changed copy of the rows
    first,         \* what the first call was given and what it computed
    change,        \* how the rows of the second call differ from the first's
    \* ---- the harmonization pages ----
    page,          \* the page that is open
    register,      \* the loaded purchase register df: rows of
                   \* <<amount, date, supplier, description>> cells
    options,       \* the column mapping and the selected actions
    page_pc,       \* "loaded" before and "stored" after Run Harmonization
    df_harmonized, \* st.session_state["df_harmonized"]
    \* ---- normalize_text ----
    text,          \* the argument x
    norm_pc,       \* position in normalize_text
    norm_run,      \* 1: first call, 2: the call on the first call's result
    normalized     \* the returned string

hvars == <<series, threshold, min_len, max_uniques, pc, run, s_raw, s_norm,
           freq, uniques, idx,
           assigned, clusters, canon_norm, canon_final, mapping_df, changed_mask,
           raised>>
avars == <<df, a_cut, b_cut, abc_pc, agg, cls, result, abc_raised,
           abc_run, first, change>>
pvars == <<page, register, options, page_pc, df_harmonized>>
nvars == <<text, norm_pc, norm_run, normalized>>
vars == <<hvars, avars, pvars, nvars>>

-----------------------------------------------------------------------------
(* Generic sequence helpers *)

Range(s) == {s[i] : i \in 1..Len(s)}

RECURSIVE SumSeq(_)
SumSeq(s) == IF s = <<>> THEN 0 ELSE Head(s) + SumSeq(Tail(s))

Count(s, x) == Cardinality({i \in 1..Len(s) : s[i] = x})

\* the sequence f as an explicit tuple (evaluated once, not on every access)
Col(f) == SubSeq(f, 1, Len(f))

\* the elements of s at the positions I, in the order of s
RECURSIVE PickFrom(_, _, _)
PickFrom(s, I, i) ==
    IF i > Len(s) THEN <<>>
    ELSE IF i \in I THEN <<s[i]>> \o PickFrom(s, I, i + 1)
    ELSE PickFrom(s, I, i + 1)

Pick(s, I) == PickFrom(s, I, 1)

\* the distinct values of s in the order of their first occurrence
Distinct(s) == Pick(s, {i \in 1..Len(s) : \A j \in 1..(i-1) : s[j] # s[i]})

\* s in the order Before(x, y); elements that tie keep their order in s
StableSort(s, Before(_, _)) ==
    LET rank == [i \in 1..Len(s) |->
                   Cardinality({j \in 1..Len(s) :
                      \/ Before(s[j], s[i])
                      \/ ~Before(s[i], s[j]) /\ j < i})] @@ <<>>
    IN Col([k \in 1..Len(s) |-> s[CHOOSE i \in 1..Len(s) : rank[i] = k - 1]])

Map(f(_), s) == Col([i \in 1..Len(s) |-> f(s[i])])

\* the permutations of 1..n
Bijections(n) == {p \in [1..n -> 1..n] : \A i, j \in 1..n : p[i] = p[j] => i = j}

-----------------------------------------------------------------------------
(* Characters and str methods *)

Null == <<"NaN">>

Space == " "
Tab == "\t"
Letters == {"a", "b", "c", "d"}
Digits == {"1"}

\* str.isspace and the class \s on one character
IsSpace(c) == c \in {Space, Tab}

\* str.lower on one character
lower(c) == IF c = "A" THEN "a" ELSE c

\* code point order of the characters used:
\* "\t" < " " < "." < "1" < "A" < "a" < ... < "d"
Ord(c) == CASE c = Tab -> 9 [] c = " " -> 32 [] c = "." -> 46
            [] c = "1" -> 49 [] c = "A" -> 65
            [] c = "a" -> 97 [] c = "b" -> 98 [] c = "c" -> 99
            [] c = "d" -> 100 [] OTHER -> 0

RECURSIVE lstrip(_)
lstrip(x) == IF x # <<>> /\ IsSpace(Head(x)) THEN lstrip(Tail(x)) ELSE x

RECURSIVE rstrip(_)
rstrip(x) == IF x # <<>> /\ IsSpace(x[Len(x)])
             THEN rstrip(SubSeq(x, 1, Len(x) - 1)) ELSE x

\* str.strip
strip(x) == rstrip(lstrip(x))

\* mutant: the substitution of line 33 left out
sub_nonalnum_skipped(x) == x

\* re.sub(r"[^a-z0-9\s]", " ", x)
sub_nonalnum(x) == Col([i \in 1..Len(x) |->
                      IF x[i] \in Letters \cup Digits \/ IsSpace(x[i])
                      THEN x[i] ELSE Space])

\* mutant: the substitution of line 34 left out
sub_spaces_skipped(x) == x

\* re.sub(r"\s+", " ", x): every run of whitespace becomes one space
RECURSIVE sub_spaces(_)
sub_spaces(x) ==
    IF x = <<>> THEN <<>>
    ELSE IF IsSpace(Head(x))
         THEN <<Space>> \o sub_spaces(lstrip(x))
         ELSE <<Head(x)>> \o sub_spaces(Tail(x))

\* pd.isna(x)
isna(x) == x = Null

\* Series.fillna on one cell
fillna(x, v) == IF isna(x) THEN v ELSE x

normalize_text(x) ==
    LET x1 == IF isna(x) THEN <<>> ELSE x
        x2 == Map(lower, strip(x1))
        x3 == sub_nonalnum(x2)
    IN strip(sub_spaces(x3))

-----------------------------------------------------------------------------
(* difflib.SequenceMatcher(None, a, b).ratio(), no junk (autojunk needs     *)
(* 200 characters)                                                         *)

\* length of the common run of a and b ending at a[i], b[j] inside the window
RECURSIVE RunEnding(_, _, _, _, _, _)
RunEnding(a, b, i, j, alo, blo) ==
    IF i <= alo \/ j <= blo THEN 0
    ELSE IF a[i] # b[j] THEN 0
    ELSE 1 + RunEnding(a, b, i - 1, j - 1, alo, blo)

\* find_longest_match over a[alo+1..ahi], b[blo+1..bhi]: <<i, j, k>>, the
\* block a[i+1..i+k] = b[j+1..j+k]; the longest, earliest in a, then in b
find_longest_match(a, b, alo, ahi, blo, bhi) ==
    LET ends == {p \in ((alo+1)..ahi) \X ((blo+1)..bhi) : a[p[1]] = b[p[2]]}
        len(p) == RunEnding(a, b, p[1], p[2], alo, blo)
    IN IF ends = {} THEN <<alo, blo, 0>>
       ELSE LET best == CHOOSE p \in ends :
                          \A q \in ends :
                             \/ len(q) < len(p)
                             \/ /\ len(q) = len(p)
                                /\ \/ p[1] < q[1]
                                   \/ p[1] = q[1] /\ p[2] <= q[2]
            IN <<best[1] - len(best), best[2] - len(best), len(best)>>

\* sum of the sizes of get_matching_blocks
RECURSIVE Matches(_, _, _, _, _, _)
Matches(a, b, alo, ahi, blo, bhi) ==
    LET m == find_longest_match(a, b, alo, ahi, blo, bhi)
        i == m[1]
        j == m[2]
        k == m[3]
    IN IF k = 0 THEN 0
       ELSE k
            + (IF alo < i /\ blo < j THEN Matches(a, b, alo, i, blo, j) ELSE 0)
            + (IF i + k < ahi /\ j + k < bhi
               THEN Matches(a, b, i + k, ahi, j + k, bhi) ELSE 0)

\* ratio() as the fraction <<numerator, denominator>>; 1.0 for two empty strings
similarity(a, b) ==
    IF Len(a) + Len(b) = 0 THEN <<1, 1>>
    ELSE <<2 * Matches(a, b, 0, Len(a), 0, Len(b)), Len(a) + Len(b)>>

\* similarity(a, b) >= t, t in hundredths
RatioGE(r, t) == r[1] * 100 >= t * r[2]

-----------------------------------------------------------------------------
(* Bounds and parameter values *)

MaxRows == 3                \* longest input column drawn from RawPool
OneMaxUniques == 1          \* a max_uniques that keeps one key
SmallMaxUniques == 2        \* a max_uniques that keeps two keys
DefaultMaxUniques == 3000
DefaultMinLen == 3
ShortMinLen == 2
DefaultThreshold == 92
SliderMinThreshold == 80

\* the raw cells an input column is drawn from
RawPool == { <<"a", "b", "c", "d">>,
             <<"A", "b", "c", "d">>,
             <<"a", "b", "c">>,
             <<"a", "b", "c", " ">>,
             <<"b", "c", "d">>,
             <<"a", "b">>,
             <<".">>,
             Null }

Thresholds == {SliderMinThreshold, DefaultThreshold}
MinLens == {ShortMinLen, DefaultMinLen}
MaxUniques == {OneMaxUniques, SmallMaxUniques, DefaultMaxUniques}

\* longer columns: two keys of equal count, the second with two raw forms;
\* three keys of counts 3, 2, 1 (no ties), each similar to the first
ScenarioColumns ==
    { << <<"a", "b", "c">>, <<"a", "b", "c">>,
         <<"a", "b", "c", "d">>, <<"A", "b", "c", "d">> >>,
      << <<"a", "b", "c", "d">>, <<"a", "b", "c", "d">>, <<"a", "b", "c", "d">>,
         <<"a", "b", "c">>, <<"a", "b", "c">>, <<"b", "c", "d">> >> }

Columns == UNION {[1..n -> RawPool] : n \in 1..MaxRows} \cup ScenarioColumns

-----------------------------------------------------------------------------
(* pandas helpers used by harmonize_names *)

\* Series.value_counts().index.tolist() as a sort that keeps equal counts in
\* order gives it: the distinct values by descending count, equal counts in
\* order of first occurrence
value_counts_index(s) ==
    LET cnt == [k \in Range(s) |-> Count(s, k)] @@ <<>>
        MoreFrequent(x, y) == cnt[x] > cnt[y]
    IN StableSort(Distinct(s), MoreFrequent)

\* Series.value_counts().index.tolist(): the distinct values by descending
\* count.  value_counts sorts the counts with sort_values and its default
\* kind, quicksort, which is not stable: equal counts come in an order the
\* sort of the build decides
value_counts_orders(s) ==
    LET cnt == [k \in Range(s) |-> Count(s, k)] @@ <<>>
        a == value_counts_index(s)
        n == Len(a)
    IN IF \A i \in 1..(n - 1) : cnt[a[i]] > cnt[a[i + 1]] THEN {a}
       ELSE {o \in {Col([i \in 1..n |-> a[p[i]]]) : p \in Bijections(n)} :
                \A i \in 1..(n - 1) : cnt[o[i]] >= cnt[o[i + 1]]}

\* dict.get(k, d) on a function used as a dict
Get(f, k, d) == IF k \in DOMAIN f THEN f[k] ELSE d

EmptyDict == [k \in {} |-> <<>>]

Put(f, k, v) == [x \in DOMAIN f \cup {k} |-> IF x = k THEN v ELSE f[x]]

\* a < b for str (code point order)
StrLess(a, b) ==
    \/ Len(a) < Len(b) /\ \A i \in 1..Len(a) : a[i] = b[i]
    \/ \E k \in 1..Len(a) :
          /\ k <= Len(b)
          /\ \A i \in 1..(k-1) : a[i] = b[i]
          /\ Ord(a[k]) < Ord(b[k])

-----------------------------------------------------------------------------
(* harmonize_names: the locals *)

\* line 72: series.fillna("").astype(str)
SRaw(col) == Col([i \in 1..Len(col) |-> fillna(col[i], <<>>)])
\* the normalized forms of the raw pool, computed once
NormTable == [r \in RawPool \cup {<<>>} |-> normalize_text(r)] @@ EmptyDict
Norm(x) == IF x \in DOMAIN NormTable THEN NormTable[x] ELSE normalize_text(x)

\* line 73: s_raw.map(normalize_text)
SNorm(sr) == Map(Norm, sr)
\* line 79: s_norm.value_counts().to_dict()
Freq(sn) == [k \in Range(sn) |-> Count(sn, k)] @@ <<>>

\* mutant: no truncation to max_uniques
UniquesNoCutoff(u, mu) == u

\* mutant: the keys in ascending order of count
UniquesAscending(u, mu) ==
    LET r == Col([i \in 1..Len(u) |-> u[Len(u) + 1 - i]])
    IN IF Len(r) > mu THEN SubSeq(r, 1, mu) ELSE r

\* mutant: uniques[:max_uniques + 1] for uniques[:max_uniques]
UniquesOneMore(u, mu) == IF Len(u) > mu THEN SubSeq(u, 1, mu + 1) ELSE u

\* lines 76-77: the list u of line 75 cut to max_uniques
Uniques(u, mu) == IF Len(u) > mu THEN SubSeq(u, 1, mu) ELSE u

\* the normalized keys of the raw pool, and their similarities computed once
NormKeys == {normalize_text(r) : r \in RawPool}
SimTable == [p \in NormKeys \X NormKeys |-> similarity(p[1], p[2])] @@ EmptyDict
Sim(a, b) == IF <<a, b>> \in DOMAIN SimTable THEN SimTable[<<a, b>>]
             ELSE similarity(a, b)

\* mutant: similarity(u, v) > threshold
MatchCondStrict(u, v) ==
    /\ Len(u) >= min_len /\ Len(v) >= min_len
    /\ Sim(u, v)[1] * 100 > threshold * Sim(u, v)[2]

\* mutant: the merge condition without the similarity test
MatchCondLenOnly(u, v) == Len(u) >= min_len /\ Len(v) >= min_len

\* mutant: the merge condition without the length test of the candidate
MatchCondSeedOnly(u, v) == Len(u) >= min_len /\ RatioGE(Sim(u, v), threshold)

\* line 91: the merge condition of seed u and candidate v
MatchCond(u, v) ==
    Len(u) >= min_len /\ Len(v) >= min_len /\ RatioGE(Sim(u, v), threshold)

\* mutant: the inner loop without the test of lines 89-90
RECURSIVE InnerScanNoSkip(_, _, _, _)
InnerScanNoSkip(u, j, asg, cl) ==
    IF j > Len(uniques) THEN [assigned |-> asg, cluster |-> cl]
    ELSE LET v == uniques[j]
         IN IF v # u /\ MatchCond(u, v)
            THEN InnerScanNoSkip(u, j + 1, Put(asg, v, u), Append(cl, v))
            ELSE InnerScanNoSkip(u, j + 1, asg, cl)

\* mutant: the inner loop left at the first key it merges
RECURSIVE InnerScanFirstMatch(_, _, _, _)
InnerScanFirstMatch(u, j, asg, cl) ==
    IF j > Len(uniques) THEN [assigned |-> asg, cluster |-> cl]
    ELSE LET v == uniques[j]
         IN IF v \in DOMAIN asg THEN InnerScanFirstMatch(u, j + 1, asg, cl)
            ELSE IF MatchCond(u, v)
                 THEN [assigned |-> Put(asg, v, u), cluster |-> Append(cl, v)]
                 ELSE InnerScanFirstMatch(u, j + 1, asg, cl)

\* lines 88-93: the inner loop from position j on; asg and cl are assigned
\* and cluster so far
RECURSIVE InnerScan(_, _, _, _)
InnerScan(u, j, asg, cl) ==
    IF j > Len(uniques) THEN [assigned |-> asg, cluster |-> cl]
    ELSE LET v == uniques[j]
         IN IF v \in DOMAIN asg THEN InnerScan(u, j + 1, asg, cl)
            ELSE IF MatchCond(u, v)
                 THEN InnerScan(u, j + 1, Put(asg, v, u), Append(cl, v))
                 ELSE InnerScan(u, j + 1, asg, cl)

\* mutant: min(cluster, key=...) for max(cluster, key=...)
BestLeast(cluster, fr) ==
    LET i == CHOOSE i \in 1..Len(cluster) :
                /\ \A j \in 1..Len(cluster) :
                      Get(fr, cluster[j], 0) >= Get(fr, cluster[i], 0)
                /\ \A j \in 1..(i-1) :
                      Get(fr, cluster[j], 0) > Get(fr, cluster[i], 0)
    IN cluster[i]

\* line 99: max(cluster, key=lambda x: freq.get(x, 0)): the first member of
\* highest frequency
Best(cluster, fr) ==
    LET i == CHOOSE i \in 1..Len(cluster) :
                /\ \A j \in 1..Len(cluster) :
                      Get(fr, cluster[j], 0) <= Get(fr, cluster[i], 0)
                /\ \A j \in 1..(i-1) :
                      Get(fr, cluster[j], 0) < Get(fr, cluster[i], 0)
    IN cluster[i]

\* lines 97-101: a later cluster's entry overwrites an earlier one's
ClusterBest(cl, fr) ==
    LET members == UNION {Range(cl[c]) : c \in 1..Len(cl)}
        last(m) == CHOOSE c \in 1..Len(cl) :
                      /\ m \in Range(cl[c])
                      /\ \A c2 \in (c+1)..Len(cl) : m \notin Range(cl[c2])
    IN [m \in members |-> Best(cl[last(m)], fr)]

\* mutant: cluster_best.get(x, "") for cluster_best.get(x, x)
CanonNormNoDefault(sn, cb) == Col([i \in 1..Len(sn) |-> Get(cb, sn[i], <<>>)])

\* line 103
CanonNorm(sn, cb) == Col([i \in 1..Len(sn) |-> Get(cb, sn[i], sn[i])])

\* the raw values of the rows of the canon_norm group k, in row order
GroupRaws(sr, cn, k) == Pick(sr, {i \in 1..Len(sr) : cn[i] = k})

\* the dicts on the keys ks that hold at k a member of opts[k]
RECURSIVE Choices(_, _)
Choices(opts, ks) ==
    IF ks = <<>> THEN {EmptyDict}
    ELSE {Put(d, ks[1], v) : d \in Choices(opts, Tail(ks)), v \in opts[ks[1]]}

\* x.value_counts().index[0] if len(x) else "": the first of an order of
\* value_counts
FirstOfCounts(x) ==
    IF Len(x) > 0 THEN {o[1] : o \in value_counts_orders(x)} ELSE {<<>>}

\* lines 106-110: per canon_norm group a most frequent raw value; the dicts
\* best_raw that the sort inside value_counts can give
BestRaws(sr, cn) ==
    LET first_of == [k \in Range(cn) |-> FirstOfCounts(GroupRaws(sr, cn, k))] @@ <<>>
    IN Choices(first_of, Distinct(cn))

\* mutant: the canonical normalized key returned as the canonical value
CanonFinalNorm(cn, br) == cn

\* line 111
CanonFinal(cn, br) == Col([i \in 1..Len(cn) |-> Get(br, cn[i], cn[i])])

\* mutant: the comparison of line 112 without .str.strip()
ChangedMaskNoStrip(cf, sr) == Col([i \in 1..Len(cf) |-> cf[i] # sr[i]])

\* line 112
ChangedMask(cf, sr) == Col([i \in 1..Len(cf) |-> strip(cf[i]) # strip(sr[i])])

\* the order of the raw strings of the pool, computed once
StrLessTable ==
    [p \in (RawPool \cup {<<>>}) \X (RawPool \cup {<<>>}) |-> StrLess(p[1], p[2])]
        @@ EmptyDict
Less(a, b) == IF <<a, b>> \in DOMAIN StrLessTable THEN StrLessTable[<<a, b>>]
              ELSE StrLess(a, b)

\* a mapping row before another in sort_values(["canonical", "raw"])
RowLess(r, q) ==
    \/ Less(r.canonical, q.canonical)
    \/ r.canonical = q.canonical /\ Less(r.raw, q.raw)

\* mutant: the table without drop_duplicates()
MappingDfNoDedup(sr, cn, cf) ==
    StableSort(Col([i \in 1..Len(sr) |->
                      [raw |-> sr[i], canon_norm |-> cn[i], canonical |-> cf[i]]]), RowLess)

\* mutant: the table built on s_norm, the normalized form of each raw value
MappingDfNormalized(sr, cn, cf) ==
    StableSort(Distinct(Col([i \in 1..Len(sr) |->
                         [raw |-> sr[i], canon_norm |-> Norm(sr[i]),
                          canonical |-> cf[i]]])), RowLess)

\* lines 114-119
MappingDf(sr, cn, cf) ==
    StableSort(Distinct(Col([i \in 1..Len(sr) |->
                         [raw |-> sr[i], canon_norm |-> cn[i], canonical |-> cf[i]]])), RowLess)

-----------------------------------------------------------------------------
(* harmonize_names: the steps *)

NoColumn == <<>>

\* lines 72-82: normalize, count, truncate, empty assigned and clusters
Begin ==
    /\ pc = "start"
    /\ s_raw' = SRaw(series)
    /\ s_norm' = SNorm(s_raw')
    /\ \E u \in value_counts_orders(s_norm') : uniques' = Uniques(u, max_uniques)
    /\ freq' = Freq(s_norm')
    /\ idx' = 1
    /\ assigned' = EmptyDict
    /\ clusters' = <<>>
    /\ pc' = "loop"
    /\ UNCHANGED <<series, threshold, min_len, max_uniques, run,
                   canon_norm, canon_final, mapping_df, changed_mask, raised>>

\* lines 83-85: the key at idx is assigned already
SkipAssigned ==
    /\ pc = "loop"
    /\ idx <= Len(uniques)
    /\ uniques[idx] \in DOMAIN assigned
    /\ idx' = idx + 1
    /\ UNCHANGED <<series, threshold, min_len, max_uniques, run, pc, s_raw, s_norm,
                   freq, uniques,
                   assigned, clusters, canon_norm, canon_final, mapping_df,
                   changed_mask, raised>>

\* lines 83-94: the key at idx seeds a cluster and collects its matches
SeedCluster ==
    /\ pc = "loop"
    /\ idx <= Len(uniques)
    /\ uniques[idx] \notin DOMAIN assigned
    /\ LET u == uniques[idx]
           r == InnerScan(u, 1, Put(assigned, u, u), <<u>>)
       IN /\ assigned' = r.assigned
          /\ clusters' = Append(clusters, r.cluster)
    /\ idx' = idx + 1
    /\ UNCHANGED <<series, threshold, min_len, max_uniques, run, pc, s_raw, s_norm,
                   freq, uniques,
                   canon_norm, canon_final, mapping_df, changed_mask, raised>>

\* lines 96-120: canonicals, changed mask, mapping table; return
Finish ==
    /\ pc = "loop"
    /\ idx > Len(uniques)
    /\ canon_norm' = CanonNorm(s_norm, ClusterBest(clusters, freq))
    /\ \E best_raw \in BestRaws(s_raw, canon_norm') :
          canon_final' = CanonFinal(canon_norm', best_raw)
    /\ changed_mask' = ChangedMask(canon_final', s_raw)
    /\ mapping_df' = MappingDf(s_raw, canon_norm', canon_final')
    /\ pc' = "done"
    /\ UNCHANGED <<series, threshold, min_len, max_uniques, run, s_raw, s_norm,
                   freq, uniques, idx, assigned, clusters, raised>>

\* a second call, on the canonical column the first call returned, with the
\* same threshold, min_len and max_uniques
Rerun ==
    /\ pc = "done"
    /\ run = 1
    /\ series' = canon_final
    /\ run' = 2
    /\ pc' = "start"
    /\ s_raw' = NoColumn
    /\ s_norm' = NoColumn
    /\ freq' = EmptyDict
    /\ uniques' = <<>>
    /\ idx' = 1
    /\ assigned' = EmptyDict
    /\ clusters' = <<>>
    /\ canon_norm' = NoColumn
    /\ canon_final' = NoColumn
    /\ changed_mask' = NoColumn
    /\ mapping_df' = <<>>
    /\ UNCHANGED <<threshold, min_len, max_uniques, raised>>

-----------------------------------------------------------------------------
(* abc_classification                                                      *)
(*                                                                         *)
(* A row is <<key cell, spend cell>>.  A key cell is <<k>> or, for a null  *)
(* key, <<>>; a spend cell is <<v>> or, for NaN, <<>>.                     *)

MaxAbcRows == 3             \* longest input of abc_classification
MaxAgainRows == 2           \* longest input of a call that is then repeated
DefaultACut == 80
DefaultBCut == 95
SliderMinACut == 50
SliderMaxACut == 90
SliderMinBCut == 80

NullCell == <<>>
\* the key cells an input is drawn from: the null key and two keys
KeyCells == {NullCell, <<1>>, <<2>>}
SpendCells == {NullCell, <<0>>, <<1>>, <<3>>, <<-1>>}

\* concrete scenario: spends 100, 50, 30, 20 in four groups
Scenario2 == << <<<<1>>, <<100>>>>, <<<<2>>, <<50>>>>,
                <<<<3>>, <<30>>>>, <<<<4>>, <<20>>>> >>

AbcInputs == UNION {[1..n -> KeyCells \X SpendCells] : n \in 1..MaxAbcRows}
                \cup {Scenario2}

\* the inputs of a call that is repeated on changed rows
AgainInputs == UNION {[1..n -> KeyCells \X SpendCells] : n \in 1..MaxAgainRows}

\* the cutoffs the caller can pass: the defaults, the slider minima, and the
\* largest a_cut with the smallest b_cut
CutPairs == { <<DefaultACut, DefaultBCut>>,
              <<SliderMinACut, SliderMinBCut>>,
              <<SliderMaxACut, SliderMinBCut>> }

\* the contract 0 < a_cut < b_cut <= 1 (cutoffs in hundredths)
CutsValid(a, b) == 0 < a /\ a < b /\ b <= 100

Key(row) == row[1]

\* mutant: a NaN spend counted as 1
SpendOrOne(row) == IF row[2] = NullCell THEN 1 ELSE row[2][1]

\* sum() skips NaN
SpendOrZero(row) == IF row[2] = NullCell THEN 0 ELSE row[2][1]

\* group keys ascending, the null key last (groupby sorts the keys)
KeyLess(x, y) == x # NullCell /\ (y = NullCell \/ x[1] < y[1])

\* df.groupby(group_col, dropna=False)[spend_col].sum()
GroupSums(rows) ==
    LET keys == StableSort(Distinct(Map(Key, rows)), KeyLess)
    IN Col([g \in 1..Len(keys) |->
              <<keys[g],
                SumSeq(Map(SpendOrZero,
                           Pick(rows, {i \in 1..Len(rows) : rows[i][1] = keys[g]})))>>])

LargerSum(x, y) == x[2] > y[2]

\* line 195: ... .sort_values(ascending=False), the outcome of a sort that
\* keeps equal sums in key order
Agg(rows) == StableSort(GroupSums(rows), LargerSum)

\* line 195: ... .sort_values(ascending=False) sorts with the default kind,
\* quicksort, which is not stable: the sums come in descending order, equal
\* sums in an order the sort of the build decides
Aggs(rows) ==
    LET a == Agg(rows)
        n == Len(a)
    IN IF \A g \in 1..(n - 1) : a[g][2] > a[g + 1][2] THEN {a}
       ELSE {s \in {Col([g \in 1..n |-> a[p[g]]]) : p \in Bijections(n)} :
                \A g \in 1..(n - 1) : s[g][2] >= s[g + 1][2]}

Sums(a) == Col([g \in 1..Len(a) |-> a[g][2]])

\* line 196
Total(a) == SumSeq(Sums(a))

\* mutant: the cumulative sum of the groups ranked before position g
CumSumBefore(a, g) == SumSeq(SubSeq(Sums(a), 1, g - 1))

\* agg.cumsum() at position g
CumSum(a, g) == SumSeq(SubSeq(Sums(a), 1, g))

\* n/d <= p/100 for d # 0
ShareLE(n, d, p) == IF d > 0 THEN n * 100 <= p * d ELSE n * 100 >= p * d

\* mutant: share < cutoff for share <= cutoff
ClassOfStrict(n, d, a, b) ==
    IF ShareLE(n, d, a) /\ n * 100 # a * d THEN "A"
    ELSE IF ShareLE(n, d, b) /\ n * 100 # b * d THEN "B"
    ELSE "C"

\* mutant: the labels A and B exchanged
ClassOfSwapped(n, d, a, b) ==
    IF ShareLE(n, d, a) THEN "B"
    ELSE IF ShareLE(n, d, b) THEN "A"
    ELSE "C"

\* lines 204-209: the class of the cumulative share n/d
ClassOf(n, d, a, b) ==
    IF ShareLE(n, d, a) THEN "A"
    ELSE IF ShareLE(n, d, b) THEN "B"
    ELSE "C"

\* lines 200-209
Cls(a, ac, bc) ==
    [k \in {a[g][1] : g \in 1..Len(a)} |->
       LET g == CHOOSE g \in 1..Len(a) : a[g][1] = k
       IN ClassOf(CumSum(a, g), Total(a), ac, bc)] @@ <<>>

\* mutant: cls.get(x) with no default and no fillna
MapRowsNoDefault(rows, c, nan_found) ==
    Col([i \in 1..Len(rows) |->
           IF rows[i][1] = NullCell /\ ~nan_found THEN "None"
           ELSE Get(c, rows[i][1], "None")])

\* line 211: cls.get(x, "C") per row.  A null key is NaN; whether the dict
\* lookup of NaN finds the NaN key depends on object identity (nan_found)
MapRows(rows, c, nan_found) ==
    Col([i \in 1..Len(rows) |->
           IF rows[i][1] = NullCell /\ ~nan_found THEN "C"
           ELSE Get(c, rows[i][1], "C")])

\* lines 195-196; the sort is a function of the sums it is given: a second
\* call with the same group sums gets the order of the first
Aggregate ==
    /\ abc_pc = "start"
    /\ IF abc_run = 2 /\ GroupSums(df) = GroupSums(first.df)
       THEN agg' = first.agg
       ELSE agg' \in Aggs(df)
    /\ abc_pc' = "aggregated"
    /\ UNCHANGED <<df, a_cut, b_cut, cls, result, abc_raised, abc_run, first, change>>

\* mutant: one "C" per group instead of one per row
AllCPerGroup(rows) == Col([i \in 1..Len(Distinct(Map(Key, rows))) |-> "C"])

\* line 198: pd.Series(["C"] * len(df), index=df.index)
AllC(rows) == Col([i \in 1..Len(rows) |-> "C"])

\* lines 197-198
ReturnAllC ==
    /\ abc_pc = "aggregated"
    /\ Total(agg) = 0
    /\ result' = AllC(df)
    /\ abc_pc' = "done"
    /\ UNCHANGED <<df, a_cut, b_cut, agg, cls, abc_raised, abc_run, first, change>>

\* lines 200-209
Classify ==
    /\ abc_pc = "aggregated"
    /\ Total(agg) # 0
    /\ cls' = Cls(agg, a_cut, b_cut)
    /\ abc_pc' = "classified"
    /\ UNCHANGED <<df, a_cut, b_cut, agg, result, abc_raised, abc_run, first, change>>

\* line 211
ReturnClasses ==
    /\ abc_pc = "classified"
    /\ \E nan_found \in BOOLEAN : result' = MapRows(df, cls, nan_found)
    /\ abc_pc' = "done"
    /\ UNCHANGED <<df, a_cut, b_cut, agg, cls, abc_raised, abc_run, first, change>>

AbcIdle ==
    /\ df = <<>>
    /\ a_cut = DefaultACut
    /\ b_cut = DefaultBCut
    /\ abc_pc = "idle"
    /\ agg = <<>>
    /\ cls = EmptyDict
    /\ result = <<>>
    /\ abc_raised = FALSE
    /\ abc_run = 1
    /\ first = <<>>
    /\ change = "none"

\* no page is open
PageIdle ==
    /\ page = "none"
    /\ register = <<>>
    /\ options = <<>>
    /\ page_pc = "idle"
    /\ df_harmonized = <<>>

\* normalize_text is not being called
NormalizeIdle ==
    /\ text = <<>>
    /\ norm_pc = "idle"
    /\ norm_run = 1
    /\ normalized = <<>>

Init ==
    /\ series \in Columns
    /\ threshold \in Thresholds
    /\ min_len \in MinLens
    /\ max_uniques \in MaxUniques
    /\ pc = "start"
    /\ run = 1
    /\ s_raw = NoColumn
    /\ s_norm = NoColumn
    /\ freq = EmptyDict
    /\ uniques = <<>>
    /\ idx = 1
    /\ assigned = EmptyDict
    /\ clusters = <<>>
    /\ canon_norm = NoColumn
    /\ canon_final = NoColumn
    /\ changed_mask = NoColumn
    /\ mapping_df = <<>>
    /\ raised = FALSE
    /\ AbcIdle
    /\ PageIdle
    /\ NormalizeIdle

Next ==
    \/ Begin /\ UNCHANGED <<avars, pvars, nvars>>
    \/ SkipAssigned /\ UNCHANGED <<avars, pvars, nvars>>
    \/ SeedCluster /\ UNCHANGED <<avars, pvars, nvars>>
    \/ Finish /\ UNCHANGED <<avars, pvars, nvars>>
    \/ Rerun /\ UNCHANGED <<avars, pvars, nvars>>

Spec == Init /\ [][Next]_vars

HarmonizeIdle ==
    /\ series = <<>>
    /\ threshold = DefaultThreshold
    /\ min_len = DefaultMinLen
    /\ max_uniques = DefaultMaxUniques
    /\ pc = "idle"
    /\ run = 1
    /\ s_raw = NoColumn
    /\ s_norm = NoColumn
    /\ freq = EmptyDict
    /\ uniques = <<>>
    /\ idx = 1
    /\ assigned = EmptyDict
    /\ clusters = <<>>
    /\ canon_norm = NoColumn
    /\ canon_final = NoColumn
    /\ changed_mask = NoColumn
    /\ mapping_df = <<>>
    /\ raised = FALSE

InitABC ==
    /\ df \in AbcInputs
    /\ \E c \in CutPairs : a_cut = c[1] /\ b_cut = c[2]
    /\ abc_pc = "start"
    /\ agg = <<>>
    /\ cls = EmptyDict
    /\ result = <<>>
    /\ abc_raised = FALSE
    /\ abc_run = 1
    /\ first = <<>>
    /\ change = "none"
    /\ HarmonizeIdle
    /\ PageIdle
    /\ NormalizeIdle

NextABC ==
    \/ Aggregate /\ UNCHANGED <<hvars, pvars, nvars>>
    \/ ReturnAllC /\ UNCHANGED <<hvars, pvars, nvars>>
    \/ Classify /\ UNCHANGED <<hvars, pvars, nvars>>
    \/ ReturnClasses /\ UNCHANGED <<hvars, pvars, nvars>>

SpecABC == InitABC /\ [][NextABC]_vars

\* s with x put in after position p, and s without its element at p
InsertAt(s, p, x) == SubSeq(s, 1, p) \o <<x>> \o SubSeq(s, p + 1, Len(s))
RemoveAt(s, p) == SubSeq(s, 1, p - 1) \o SubSeq(s, p + 1, Len(s))

\* abc_classification called a second time, with the same cutoffs, on rows
\* that differ from the first call's in the way how
CallAgain(rows, how) ==
    /\ abc_pc = "done"
    /\ abc_run = 1
    /\ first' = [df |-> df, agg |-> agg, cls |-> cls, result |-> result]
    /\ df' = rows
    /\ change' = how
    /\ abc_run' = 2
    /\ abc_pc' = "start"
    /\ agg' = <<>>
    /\ cls' = EmptyDict
    /\ result' = <<>>
    /\ UNCHANGED <<a_cut, b_cut, abc_raised>>

\* the second call has one more row, of null spend, in a group of the first
CallWithNullSpendRow ==
    \E i \in 1..Len(df), p \in 0..Len(df) :
        CallAgain(InsertAt(df, p, <<df[i][1], NullCell>>), "null_row_added")

\* the second call lacks a row of null spend whose group has another row
CallWithoutNullSpendRow ==
    \E p \in 1..Len(df) :
        /\ df[p][2] = NullCell
        /\ \E q \in 1..Len(df) : q # p /\ df[q][1] = df[p][1]
        /\ CallAgain(RemoveAt(df, p), "null_row_removed")

\* the second call has the rows of the first in another order
CallPermuted ==
    \E p \in Bijections(Len(df)) :
        /\ \E i \in 1..Len(df) : p[i] # i
        /\ CallAgain(Col([i \in 1..Len(df) |-> df[p[i]]]), "permuted")

InitABCAgain ==
    /\ df \in AgainInputs
    /\ a_cut = DefaultACut
    /\ b_cut = DefaultBCut
    /\ abc_pc = "start"
    /\ agg = <<>>
    /\ cls = EmptyDict
    /\ result = <<>>
    /\ abc_raised = FALSE
    /\ abc_run = 1
    /\ first = <<>>
    /\ change = "none"
    /\ HarmonizeIdle
    /\ PageIdle
    /\ NormalizeIdle

NextABCAgain ==
    \/ Aggregate /\ UNCHANGED <<hvars, pvars, nvars>>
    \/ ReturnAllC /\ UNCHANGED <<hvars, pvars, nvars>>
    \/ Classify /\ UNCHANGED <<hvars, pvars, nvars>>
    \/ ReturnClasses /\ UNCHANGED <<hvars, pvars, nvars>>
    \/ CallWithNullSpendRow /\ UNCHANGED <<hvars, pvars, nvars>>
    \/ CallWithoutNullSpendRow /\ UNCHANGED <<hvars, pvars, nvars>>
    \/ CallPermuted /\ UNCHANGED <<hvars, pvars, nvars>>

SpecABCAgain == InitABCAgain /\ [][NextABCAgain]_vars

\* thresholds over the whole range [0, 1], beside the slider's
WideThresholds == {0, 50, 100} \cup Thresholds

\* harmonize_names called with any threshold of the range
InitAnyThreshold ==
    /\ series \in Columns
    /\ threshold \in WideThresholds
    /\ min_len \in MinLens
    /\ max_uniques = DefaultMaxUniques
    /\ pc = "start"
    /\ run = 1
    /\ s_raw = NoColumn
    /\ s_norm = NoColumn
    /\ freq = EmptyDict
    /\ uniques = <<>>
    /\ idx = 1
    /\ assigned = EmptyDict
    /\ clusters = <<>>
    /\ canon_norm = NoColumn
    /\ canon_final = NoColumn
    /\ changed_mask = NoColumn
    /\ mapping_df = <<>>
    /\ raised = FALSE
    /\ AbcIdle
    /\ PageIdle
    /\ NormalizeIdle

SpecAnyThreshold == InitAnyThreshold /\ [][Next]_vars

\* harmonize_names called with the threshold at the slider's minimum and any
\* max_uniques, so that keys are merged and keys are cut off
InitCutoff ==
    /\ series \in Columns
    /\ threshold = SliderMinThreshold
    /\ min_len \in MinLens
    /\ max_uniques \in MaxUniques
    /\ pc = "start"
    /\ run = 1
    /\ s_raw = NoColumn
    /\ s_norm = NoColumn
    /\ freq = EmptyDict
    /\ uniques = <<>>
    /\ idx = 1
    /\ assigned = EmptyDict
    /\ clusters = <<>>
    /\ canon_norm = NoColumn
    /\ canon_final = NoColumn
    /\ changed_mask = NoColumn
    /\ mapping_df = <<>>
    /\ raised = FALSE
    /\ AbcIdle
    /\ PageIdle
    /\ NormalizeIdle

SpecCutoff == InitCutoff /\ [][Next]_vars

\* the contract of the parameters: threshold in [0, 1] (hundredths), min_len >= 1
ParamsValid(t, m) == 0 <= t /\ t <= 100 /\ m >= 1

\* thresholds below 0 and above 1, and a min_len below 1
BadThresholds == {0 - 10, 150}
BadMinLens == {0}

\* harmonize_names called with a threshold or a min_len outside the contract
InitBadParams ==
    /\ series \in Columns
    /\ threshold \in Thresholds \cup BadThresholds
    /\ min_len \in MinLens \cup BadMinLens
    /\ ~ParamsValid(threshold, min_len)
    /\ max_uniques = DefaultMaxUniques
    /\ pc = "start"
    /\ run = 1
    /\ s_raw = NoColumn
    /\ s_norm = NoColumn
    /\ freq = EmptyDict
    /\ uniques = <<>>
    /\ idx = 1
    /\ assigned = EmptyDict
    /\ clusters = <<>>
    /\ canon_norm = NoColumn
    /\ canon_final = NoColumn
    /\ changed_mask = NoColumn
    /\ mapping_df = <<>>
    /\ raised = FALSE
    /\ AbcIdle
    /\ PageIdle
    /\ NormalizeIdle

SpecBadParams == InitBadParams /\ [][Next]_vars

-----------------------------------------------------------------------------
(* normalize_text called on its own, and again on its result               *)

MaxTextLen == 4             \* longest argument of normalize_text

\* the characters of an argument: a lower-case and an upper-case letter, a
\* digit, a punctuation mark, a space and a tab
TextChars == {"a", "A", "1", ".", Space, Tab}

Texts == UNION {[1..n -> TextChars] : n \in 0..MaxTextLen} \cup {Null}

\* lines 30-35
Normalize ==
    /\ norm_pc = "start"
    /\ normalized' = normalize_text(text)
    /\ norm_pc' = "done"
    /\ UNCHANGED <<text, norm_run>>

\* a second call, on the string the first call returned
NormalizeAgain ==
    /\ norm_pc = "done"
    /\ norm_run = 1
    /\ text' = normalized
    /\ norm_run' = 2
    /\ norm_pc' = "start"
    /\ normalized' = <<>>

InitNormalize ==
    /\ text \in Texts
    /\ norm_pc = "start"
    /\ norm_run = 1
    /\ normalized = <<>>
    /\ HarmonizeIdle
    /\ AbcIdle
    /\ PageIdle

NextNormalize ==
    \/ Normalize /\ UNCHANGED <<hvars, avars, pvars>>
    \/ NormalizeAgain /\ UNCHANGED <<hvars, avars, pvars>>

SpecNormalize == InitNormalize /\ [][NextNormalize]_vars

-----------------------------------------------------------------------------
(* The harmonization pages: Run Harmonization                              *)
(*                                                                         *)
(* A register row is <<amount, date, supplier, description>>.  NaN and NaT *)
(* are the cell Null.  Currency conversion is not selected (_spend is     *)
(* _amount_clean).                                                         *)

MaxRegisterRows == 2        \* longest purchase register

\* the cells of a register row
AmountPool == { <<"1", ",", "5">>, <<"x">>, Null }
GoodDate == <<"d">>
DatePool == { GoodDate, <<"x">>, Null }
SupplierPool == { <<"a", "b", "c">>, Null }
DescPool == { <<"a", "b", "c">>, Null }

Registers ==
    UNION {[1..n -> AmountPool \X DatePool \X SupplierPool \X DescPool] :
             n \in 1..MaxRegisterRows}

\* Series.astype(str) on one cell
astype_str(x) == IF isna(x) THEN <<"n", "a", "n">> ELSE x

\* clean_amount on one cell: drop commas and whitespace, drop every character
\* but digits, "." and "-", then to_numeric(errors="coerce"): NaN for a
\* string that is not a number (the empty string; the pool has no "." or "-")
clean_amount(x) ==
    LET s == SelectSeq(astype_str(x), LAMBDA c : c # "," /\ ~IsSpace(c))
        d == SelectSeq(s, LAMBDA c : c \in {"0", "1", "5", ".", "-"})
    IN IF d = <<>> THEN Null ELSE d

\* standardize_date on one cell: NaT for what to_datetime cannot parse
standardize_date(x) == IF x = GoodDate THEN x ELSE Null

\* normalize_description on one cell
normalize_description(x) == strip(sub_spaces(fillna(x, <<>>)))

\* harmonize_names(col) at the default min_len, max_uniques and any slider
\* threshold, for a column over SupplierPool: its two keys, "abc" and the
\* empty key, never merge (the empty key is shorter than min_len), so every
\* key is its own cluster and canon_norm is s_norm; each key has one raw
\* value, so best_raw is the same under every sort
harmonized_column(col) ==
    LET sr == SRaw(col)
        sn == SNorm(sr)
    IN CanonFinal(sn, CHOOSE best_raw \in BestRaws(sr, sn) : TRUE)

Unknown == <<"U", "n", "k", "n", "o", "w", "n">>

\* the option sets of the pages: which optional columns are mapped and which
\* actions are selected
DataHarmonizationOptions ==
    [date_col : BOOLEAN, supplier_col : BOOLEAN, desc_col : BOOLEAN,
     standardize_date : BOOLEAN, harmonize_supplier : BOOLEAN,
     normalize_desc : BOOLEAN, drop_missing : BOOLEAN]
SpendDataOptions == [drop_missing : BOOLEAN]
HarmonizationOptions == [date_selected : BOOLEAN, supplier_selected : BOOLEAN]

Column(reg, c) == Col([i \in 1..Len(reg) |-> reg[i][c]])

\* the rows of out that dropna(subset=required) keeps
dropna(out, required) ==
    SelectSeq(out, LAMBDA r : \A c \in required : ~isna(r[c]))

\* src/pages/1_Data_Harmonization.py: lines 110-250
RunDataHarmonization ==
    /\ page = "1_Data_Harmonization"
    /\ page_pc = "loaded"
    /\ LET o == options
           sup_h == harmonized_column(Column(register, 3))
           out == Col([i \in 1..Len(register) |->
                    [row |-> i,
                     _spend |-> clean_amount(register[i][1]),
                     _date_std |-> IF o.standardize_date /\ o.date_col
                                   THEN standardize_date(register[i][2]) ELSE Null,
                     _supplier_h |-> IF ~o.supplier_col THEN Unknown
                                     ELSE IF o.harmonize_supplier THEN sup_h[i]
                                     ELSE astype_str(register[i][3]),
                     _desc_h |-> IF ~o.desc_col THEN <<>>
                                 ELSE IF o.normalize_desc
                                      THEN normalize_description(register[i][4])
                                      ELSE astype_str(register[i][4])]])
           required == {"_spend"}
                       \cup (IF o.date_col /\ o.standardize_date THEN {"_date_std"} ELSE {})
                       \cup (IF o.supplier_col THEN {"_supplier_h"} ELSE {})
                       \cup (IF o.desc_col THEN {"_desc_h"} ELSE {})
       IN df_harmonized' = IF o.drop_missing THEN dropna(out, required) ELSE out
    /\ page_pc' = "stored"
    /\ UNCHANGED <<page, register, options>>

\* src/pages/1_Spend_Data.py: lines 53-96
RunSpendData ==
    /\ page = "1_Spend_Data"
    /\ page_pc = "loaded"
    /\ LET sup_h == harmonized_column(Column(register, 3))
           out == Col([i \in 1..Len(register) |->
                    [row |-> i,
                     _spend |-> clean_amount(register[i][1]),
                     _date_std |-> standardize_date(register[i][2]),
                     _supplier_h |-> sup_h[i],
                     _desc_h |-> normalize_description(register[i][4])]])
           kept == SelectSeq(dropna(out, {"_spend", "_date_std", "_supplier_h", "_desc_h"}),
                             LAMBDA r : strip(r._supplier_h) # <<>> /\ strip(r._desc_h) # <<>>)
       IN df_harmonized' = IF options.drop_missing THEN kept ELSE out
    /\ page_pc' = "stored"
    /\ UNCHANGED <<page, register, options>>

\* src/pages/2_Harmonization.py: lines 67-123 (no row is dropped)
RunHarmonization ==
    /\ page = "2_Harmonization"
    /\ page_pc = "loaded"
    /\ LET o == options
           sup_h == harmonized_column(Column(register, 3))
       IN df_harmonized' =
            Col([i \in 1..Len(register) |->
                   [row |-> i,
                    _spend |-> clean_amount(register[i][1]),
                    _date_std |-> IF o.date_selected
                                  THEN standardize_date(register[i][2]) ELSE Null,
                    _supplier_h |-> IF o.supplier_selected THEN sup_h[i]
                                    ELSE register[i][3],
                    _desc_h |-> register[i][4]]])
    /\ page_pc' = "stored"
    /\ UNCHANGED <<page, register, options>>

InitPage ==
    /\ register \in Registers
    /\ \/ page = "1_Data_Harmonization" /\ options \in DataHarmonizationOptions
       \/ page = "1_Spend_Data" /\ options \in SpendDataOptions
       \/ page = "2_Harmonization" /\ options \in HarmonizationOptions
    /\ page_pc = "loaded"
    /\ df_harmonized = <<>>
    /\ HarmonizeIdle
    /\ AbcIdle
    /\ NormalizeIdle

NextPage ==
    \/ RunDataHarmonization /\ UNCHANGED <<hvars, avars, nvars>>
    \/ RunSpendData /\ UNCHANGED <<hvars, avars, nvars>>
    \/ RunHarmonization /\ UNCHANGED <<hvars, avars, nvars>>

SpecPage == InitPage /\ [][NextPage]_vars

-----------------------------------------------------------------------------
(* Properties of harmonize_names, checked under Spec                       *)

Returned == pc = "done"

Rows == 1..Len(series)

\* the number of distinct normalized keys
NKeys == Cardinality(Range(s_norm))

\* the keys are in descending frequency order
ByFrequency(keys) ==
    \A p, q \in 1..Len(keys) :
        p < q => Count(s_norm, keys[p]) >= Count(s_norm, keys[q])

\* uniques holds the first max_uniques keys of a descending frequency order
\* of the distinct normalized keys: all of them when there are no more
FirstKeys ==
    /\ Range(uniques) \subseteq Range(s_norm)
    /\ Len(uniques) = Cardinality(Range(uniques))
    /\ Len(uniques) = IF NKeys > max_uniques THEN max_uniques ELSE NKeys
    /\ ByFrequency(uniques)
    /\ \A k \in Range(s_norm) \ Range(uniques) :
          \A u \in Range(uniques) : Count(s_norm, k) <= Count(s_norm, u)

\* the normalized key of row i lies beyond the max_uniques cutoff
BeyondCutoff(i) == s_norm[i] \notin Range(uniques)

\* position of key k among the keys the loop visits
UPos(k) == CHOOSE p \in 1..Len(uniques) : uniques[p] = k

\* key a comes before key b in the frequency order of the call
Before(a, b) ==
    /\ a \in Range(uniques)
    /\ b \in Range(uniques) => UPos(a) < UPos(b)

\* the canonical value returned for the rows of normalized key k
CanonOf(k) == canon_final[CHOOSE i \in Rows : s_norm[i] = k]

\* the clusters that hold key k
ClustersOf(k) == {c \in 1..Len(clusters) : k \in Range(clusters[c])}

\* key k seeds a cluster
IsSeed(k) == \E c \in 1..Len(clusters) : clusters[c][1] = k

\* the condition under which the code merges: both long enough, similar enough
Similar(a, b) == RatioGE(Sim(a, b), threshold)
LongEnough(k) == Len(k) >= min_len

\* the most frequent raw values among the rows of normalized key k
TopRawsOfKey(k) ==
    LET x == Pick(s_raw, {j \in Rows : s_norm[j] = k})
    IN {r \in Range(x) : \A q \in Range(x) : Count(x, q) <= Count(x, r)}

\* C1 (as claimed): a second run of harmonize_names on the canonical column
\* of a first run, with the same threshold, min_len and max_uniques, returns
\* a changed mask that is false for every row and a canonical column equal
\* to its input.
C1_Idempotent ==
    (Returned /\ run = 2) =>
        /\ \A i \in Rows : changed_mask[i] = FALSE
        /\ canon_final = series

\* C2 (as claimed): every distinct normalized key of the input belongs to
\* exactly one cluster and maps to exactly one canonical label; rows of the
\* same key get the same canonical; no normalized key of the mapping table
\* stands under two canonicals.
C2_PartitionAsClaimed ==
    Returned =>
        /\ \A k \in Range(s_norm) : Cardinality(ClustersOf(k)) = 1
        /\ \A i, j \in Rows : s_norm[i] = s_norm[j] => canon_final[i] = canon_final[j]
        /\ \A r, q \in Range(mapping_df) :
              (Norm(r.raw) = Norm(q.raw) \/ r.canon_norm = q.canon_norm)
                  => r.canonical = q.canonical

\* C2 (amended): every distinct normalized key among the first max_uniques
\* keys of the frequency order belongs to exactly one cluster, a key beyond
\* the cutoff to none; rows of the same key get the same canonical, and no
\* normalized key of the mapping table stands under two canonicals.
C2_Partition ==
    Returned =>
        /\ FirstKeys
        /\ \A k \in Range(s_norm) :
              Cardinality(ClustersOf(k)) = (IF k \in Range(uniques) THEN 1 ELSE 0)
        /\ \A c \in 1..Len(clusters) : Range(clusters[c]) \subseteq Range(s_norm)
        /\ \A i, j \in Rows : s_norm[i] = s_norm[j] => canon_final[i] = canon_final[j]
        /\ \A i, j \in Rows : canon_norm[i] = canon_norm[j] => canon_final[i] = canon_final[j]
        /\ \A r, q \in Range(mapping_df) :
              (Norm(r.raw) = Norm(q.raw) \/ r.canon_norm = q.canon_norm)
                  => r.canonical = q.canonical
        /\ \A i \in Rows : \E r \in Range(mapping_df) :
              r.raw = s_raw[i] /\ r.canon_norm = canon_norm[i] /\ r.canonical = canon_final[i]

\* C2 witness: a run with truncation returned, with a cluster of two keys and
\* a key beyond the cutoff
C2_Witness ==
    /\ Returned
    /\ NKeys > max_uniques
    /\ \E c \in 1..Len(clusters) : Len(clusters[c]) >= 2

\* C3 (as claimed): for any two normalized keys a, b of the input with
\* similarity(a, b) >= threshold, a processed before b in the frequency
\* order, b receives the same canonical as a.
C3_SymmetryAsClaimed ==
    Returned =>
        \A a, b \in Range(s_norm) :
            (Before(a, b) /\ Similar(a, b)) => CanonOf(b) = CanonOf(a)

\* C3 (amended): for two normalized keys a, b among the first max_uniques
\* keys, both of length >= min_len, with similarity(a, b) >= threshold, a
\* before b in the frequency order, a a cluster seed, and b matching no seed
\* before a, b receives the same canonical as a.
C3_Symmetry ==
    Returned =>
        /\ FirstKeys
        /\ \A p, q \in 1..Len(uniques) :
              LET a == uniques[p]
                  b == uniques[q]
              IN ( /\ p < q
                   /\ LongEnough(a) /\ LongEnough(b) /\ Similar(a, b)
                   /\ IsSeed(a)
                   /\ \A o \in 1..(p - 1) :
                         ~( /\ IsSeed(uniques[o])
                            /\ LongEnough(uniques[o]) /\ LongEnough(b)
                            /\ Similar(uniques[o], b) ) )
                 => CanonOf(b) = CanonOf(a)

\* C3 witness: a returned run in which a later key was merged into an earlier
\* seed it is similar to, and so a raw row was changed
C3_Witness ==
    /\ Returned
    /\ \E p, q \in 1..Len(uniques) :
          /\ p < q
          /\ IsSeed(uniques[p])
          /\ LongEnough(uniques[p]) /\ LongEnough(uniques[q])
          /\ Similar(uniques[p], uniques[q])
          /\ CanonOf(uniques[q]) = CanonOf(uniques[p])
          /\ \E i \in Rows : s_norm[i] = uniques[q] /\ changed_mask[i]

\* C8 (as claimed): when the number of distinct normalized keys exceeds
\* max_uniques, every row whose key lies beyond the cutoff has changed = false.
C8_BeyondUnchangedAsClaimed ==
    Returned => \A i \in Rows : BeyondCutoff(i) => changed_mask[i] = FALSE

\* C8 (amended): when the number of distinct normalized keys exceeds
\* max_uniques, the rows that share a normalized key beyond the cutoff get as
\* canonical one of the most frequent raw strings among them, the same for
\* all of them, and such a row has changed = false exactly when its raw
\* string, trimmed, equals that canonical, trimmed.
C8_BeyondUnchanged ==
    Returned =>
        /\ FirstKeys
        /\ \A i \in Rows :
              BeyondCutoff(i) =>
                  /\ canon_final[i] \in TopRawsOfKey(s_norm[i])
                  /\ \A j \in Rows : s_norm[j] = s_norm[i] => canon_final[j] = canon_final[i]
                  /\ changed_mask[i] = FALSE
                        <=> strip(s_raw[i]) = strip(canon_final[i])

\* C8 witness: a returned run with a changed and an unchanged row beyond the
\* cutoff
C8_Witness ==
    /\ Returned
    /\ \E i, j \in Rows :
          /\ BeyondCutoff(i) /\ changed_mask[i]
          /\ BeyondCutoff(j) /\ ~changed_mask[j]

\* C9 (as claimed): when the number of distinct normalized keys exceeds
\* max_uniques, the canonical value of every row whose key lies beyond the
\* cutoff is that row's own normalized form.
C9_BeyondNormalizedAsClaimed ==
    Returned => \A i \in Rows : BeyondCutoff(i) => canon_final[i] = s_norm[i]

\* C9 (amended): when the number of distinct normalized keys exceeds
\* max_uniques, the canonical value of every row whose key lies beyond the
\* cutoff is one of the most frequent raw strings of the rows that share the
\* row's own normalized key; its normalized form is the row's own normalized
\* form.
C9_BeyondOwnRaw ==
    Returned =>
        /\ FirstKeys
        /\ \A i \in Rows :
              BeyondCutoff(i) =>
                  /\ canon_final[i] \in TopRawsOfKey(s_norm[i])
                  /\ Norm(canon_final[i]) = s_norm[i]

\* C9 witness: a returned run with a row beyond the cutoff whose canonical
\* value is a raw string different from its normalized form
C9_Witness ==
    /\ Returned
    /\ \E i \in Rows :
          /\ BeyondCutoff(i)
          /\ canon_final[i] # s_norm[i]
          /\ canon_final[i] \in TopRawsOfKey(s_norm[i])

\* the empty normalized key
EmptyKey == <<>>

\* a null, empty or malformed raw cell: no letter or digit in it
Blank(x) == isna(x) \/ \A i \in 1..Len(x) : lower(x[i]) \notin Letters

\* C12 (as claimed): harmonize_names never raises on null, empty or malformed
\* values: each normalizes to the empty key, the empty key forms its own
\* singleton cluster that is never merged with a non-empty key, and all rows
\* with the empty key receive one and the same canonical value.
C12_EmptyKeyAsClaimed ==
    Returned =>
        /\ ~raised
        /\ \A i \in Rows : Blank(series[i]) => s_norm[i] = EmptyKey
        /\ EmptyKey \in Range(s_norm) =>
              /\ \E c \in 1..Len(clusters) : clusters[c] = <<EmptyKey>>
              /\ Cardinality(ClustersOf(EmptyKey)) = 1
        /\ \A i \in Rows : (canon_norm[i] = EmptyKey) <=> (s_norm[i] = EmptyKey)
        /\ \A i, j \in Rows :
              (s_norm[i] = EmptyKey /\ s_norm[j] = EmptyKey)
                  => canon_final[i] = canon_final[j]

\* C12 (amended): for min_len >= 1, harmonize_names never raises on null,
\* empty or malformed values: each normalizes to the empty key; the empty key
\* is never merged with a non-empty key: it forms its own singleton cluster
\* when it is among the first max_uniques keys of the frequency order and is
\* in no cluster otherwise; all rows with the empty key receive one and the
\* same canonical value.
C12_EmptyKey ==
    (Returned /\ min_len >= 1) =>
        /\ ~raised
        /\ FirstKeys
        /\ \A i \in Rows : Blank(series[i]) <=> s_norm[i] = EmptyKey
        /\ EmptyKey \in Range(s_norm) =>
              IF EmptyKey \in Range(uniques)
              THEN /\ \E c \in 1..Len(clusters) : clusters[c] = <<EmptyKey>>
                   /\ Cardinality(ClustersOf(EmptyKey)) = 1
              ELSE ClustersOf(EmptyKey) = {}
        /\ \A i \in Rows : (canon_norm[i] = EmptyKey) <=> (s_norm[i] = EmptyKey)
        /\ \A i, j \in Rows :
              (s_norm[i] = EmptyKey /\ s_norm[j] = EmptyKey)
                  => canon_final[i] = canon_final[j]

\* C12 witness: a returned run over a null cell, a punctuation-only cell and
\* a non-empty key, the empty key in a singleton cluster and its rows under
\* one canonical
C12_Witness ==
    /\ Returned
    /\ \E i, j, l \in Rows :
          /\ isna(series[i]) /\ ~isna(series[j]) /\ Blank(series[j])
          /\ s_norm[l] # EmptyKey
          /\ canon_final[i] = canon_final[j]
    /\ \E c \in 1..Len(clusters) : clusters[c] = <<EmptyKey>>

\* C13: for every row, the changed flag is true exactly when the row's
\* canonical string with surrounding whitespace trimmed differs from the
\* row's original raw string with surrounding whitespace trimmed, a null raw
\* counted as the empty string.
C13_ChangedFlag ==
    Returned =>
        /\ Len(changed_mask) = Len(series)
        /\ \A i \in Rows :
              changed_mask[i] = (strip(canon_final[i]) # strip(fillna(series[i], <<>>)))

\* C13 witness: a returned run with a changed row, and an unchanged row
\* whose raw string differs from its canonical only by surrounding whitespace
C13_Witness ==
    /\ Returned
    /\ \E i, j \in Rows :
          /\ changed_mask[i]
          /\ ~changed_mask[j] /\ ~isna(series[j]) /\ canon_final[j] # series[j]

\* the clustering loop has started
Clustering == pc \in {"loop", "done"}

\* the seeds so far
Seeds == {clusters[c][1] : c \in 1..Len(clusters)}

\* seed u and key v match: line 91
Match(u, v) == LongEnough(u) /\ LongEnough(v) /\ Similar(u, v)

\* the first seed, in the order of the visit, that key v matches
FirstMatchingSeed(v, u) ==
    /\ u \in Seeds
    /\ Match(u, v)
    /\ \A w \in Seeds : UPos(w) < UPos(u) => ~Match(w, v)

\* the loop has visited the keys before idx, in order: each is assigned, the
\* seeds stand in clusters in the order of their visit
VisitedInOrder ==
    /\ \A p \in 1..Len(uniques) : p < idx => uniques[p] \in DOMAIN assigned
    /\ \A c \in 1..Len(clusters) : UPos(clusters[c][1]) < idx
    /\ \A c, e \in 1..Len(clusters) :
          c < e => UPos(clusters[c][1]) < UPos(clusters[e][1])

\* one step of the loop keeps every assignment made and every cluster opened
KeepsAssignments ==
    (pc = "loop" /\ pc' \in {"loop", "done"}) =>
        /\ \A k \in DOMAIN assigned :
              k \in DOMAIN assigned' /\ assigned'[k] = assigned[k]
        /\ Len(clusters') >= Len(clusters)
        /\ \A c \in 1..Len(clusters) : clusters'[c] = clusters[c]
        /\ idx' \in {idx, idx + 1}

\* C17 (as claimed): distinct normalized keys are visited in descending
\* frequency order; each key that is not a seed is assigned to the first
\* seed in that order which it matches (both lengths >= min_len and
\* similarity >= threshold), and a key once assigned is never reassigned to
\* a later seed and never becomes a seed itself.
C17_GreedyOrderAsClaimed ==
    /\ [](Clustering =>
            /\ Range(uniques) = Range(s_norm) /\ ByFrequency(uniques)
            /\ VisitedInOrder)
    /\ [](Returned =>
            \A k \in Range(s_norm) :
               k \notin Seeds =>
                  k \in DOMAIN assigned /\ FirstMatchingSeed(k, assigned[k]))
    /\ [][KeepsAssignments]_vars

\* C17 (amended): the first max_uniques distinct normalized keys of the
\* descending frequency order are visited in that order; each of these keys
\* that is not a seed is assigned to the first seed in that order which it
\* matches (both lengths >= min_len and similarity(seed, key) >= threshold),
\* and a key once assigned is never reassigned to a later seed and never
\* becomes a seed itself; keys beyond the cutoff are neither visited nor
\* assigned.
C17_GreedyOrder ==
    /\ [](Clustering =>
            /\ FirstKeys
            /\ VisitedInOrder
            /\ DOMAIN assigned \subseteq Range(uniques)
            /\ \A k \in DOMAIN assigned :
                  IF k \in Seeds THEN assigned[k] = k
                  ELSE /\ FirstMatchingSeed(k, assigned[k])
                       /\ UPos(assigned[k]) < UPos(k))
    /\ [](Returned => DOMAIN assigned = Range(uniques))
    /\ [][KeepsAssignments]_vars

\* C17 witness: a returned run in which a key matches two seeds and is
\* assigned to the one visited first
C17_Witness ==
    /\ Returned
    /\ \E v \in DOMAIN assigned : \E u, w \in Seeds :
          /\ v \notin Seeds
          /\ UPos(u) < UPos(w)
          /\ Match(u, v) /\ Match(w, v)
          /\ assigned[v] = u

\* C18: for every cluster and every member of it other than the seed, the
\* member has length >= min_len, the seed has length >= min_len, and
\* similarity(seed, member) >= threshold.
C18_Membership ==
    Clustering =>
        \A c \in 1..Len(clusters) :
            \A m \in 2..Len(clusters[c]) :
                /\ LongEnough(clusters[c][m])
                /\ LongEnough(clusters[c][1])
                /\ Similar(clusters[c][1], clusters[c][m])
                /\ clusters[c][m] # clusters[c][1]

\* C18 witness: a returned run with a cluster of a seed and another member,
\* and a cluster whose only member, the seed, is shorter than min_len
C18_Witness ==
    /\ Returned
    /\ \E c, e \in 1..Len(clusters) :
          /\ Len(clusters[c]) >= 2
          /\ Len(clusters[e]) = 1 /\ ~LongEnough(clusters[e][1])

\* C19: a normalized key shorter than min_len is never merged with any other
\* distinct normalized key, whatever the threshold: it is the only member of
\* its cluster, neither absorbing other keys as a seed nor being absorbed.
C19_ShortKeyAlone ==
    /\ Clustering =>
          \A k \in Range(s_norm) :
              ~LongEnough(k) =>
                  /\ \A c \in 1..Len(clusters) :
                        k \in Range(clusters[c]) => clusters[c] = <<k>>
                  /\ k \in DOMAIN assigned => assigned[k] = k
                  /\ \A v \in DOMAIN assigned : assigned[v] = k => v = k
    /\ Returned =>
          \A i \in Rows :
              (~LongEnough(s_norm[i]) \/ ~LongEnough(canon_norm[i]))
                  => canon_norm[i] = s_norm[i]

\* C19 witness: a returned run with a non-empty key shorter than min_len that
\* stays alone in its cluster next to a longer seed whose similarity to it
\* reaches the threshold and whose cluster did absorb another key
C19_Witness ==
    /\ Returned
    /\ \E c, e \in 1..Len(clusters) :
          /\ clusters[c] = <<clusters[c][1]>>
          /\ clusters[c][1] # EmptyKey
          /\ ~LongEnough(clusters[c][1])
          /\ LongEnough(clusters[e][1])
          /\ Similar(clusters[e][1], clusters[c][1])
          /\ Len(clusters[e]) >= 2

\* the rows mapped to the same canonical normalized key as row i
GroupOf(i) == {j \in Rows : canon_norm[j] = canon_norm[i]}

\* the raw string of row j before normalization, a null counted as ""
RawOf(j) == fillna(series[j], <<>>)

\* occurrences of raw string r among the rows G, and its first row in G
RawCount(G, r) == Cardinality({j \in G : RawOf(j) = r})
FirstRow(G, r) == CHOOSE j \in G : RawOf(j) = r /\ \A l \in G : RawOf(l) = r => j <= l

\* C20 (as claimed): the canonical string of a cluster is the raw string with the highest
\* number of occurrences among all input rows mapped to that cluster's
\* canonical normalized key; among raw strings of equal count the one first
\* seen in the input is chosen.
C20_CanonicalLabel ==
    Returned =>
        \A i \in Rows :
            LET G == GroupOf(i)
                r == canon_final[i]
            IN /\ \E j \in G : RawOf(j) = r
               /\ \A j \in G :
                     \/ RawCount(G, RawOf(j)) < RawCount(G, r)
                     \/ /\ RawCount(G, RawOf(j)) = RawCount(G, r)
                        /\ FirstRow(G, r) <= j

\* C21: within each cluster, the canonical normalized key is the member whose
\* normalized key has the highest frequency in the full input: every row of
\* a key of the cluster gets as canonical normalized key a member of the
\* cluster that no other member exceeds in frequency.
C21_CanonicalKey ==
    Returned =>
        \A c \in 1..Len(clusters) :
            \E b \in Range(clusters[c]) :
                /\ \A m \in Range(clusters[c]) : Count(s_norm, m) <= Count(s_norm, b)
                /\ \A i \in Rows : s_norm[i] \in Range(clusters[c]) => canon_norm[i] = b

\* C21 witness: a returned run with a cluster of two keys of different
\* frequency whose rows all stand under the more frequent key
C21_Witness ==
    /\ Returned
    /\ \E i, j \in Rows :
          /\ s_norm[i] # s_norm[j]
          /\ ClustersOf(s_norm[i]) # {}
          /\ ClustersOf(s_norm[i]) = ClustersOf(s_norm[j])
          /\ Count(s_norm, s_norm[j]) < Count(s_norm, s_norm[i])
          /\ canon_norm[j] = s_norm[i]
          /\ canon_norm[i] = s_norm[i]

\* the distinct normalized keys, and those beyond the max_uniques cutoff
Keys == Range(s_norm)
BeyondKeys == Keys \ Range(uniques)

\* C22: when the number of distinct normalized keys exceeds max_uniques, the
\* keys beyond the first max_uniques of the descending frequency order pass
\* through unclustered: such a key is never merged with any other distinct
\* normalized key, and no key inside the cutoff is ever mapped to it.
C22_PassThrough ==
    /\ (Clustering /\ Cardinality(Keys) > max_uniques) =>
          /\ Len(uniques) = max_uniques
          /\ Cardinality(BeyondKeys) = Cardinality(Keys) - max_uniques
          /\ \A k \in BeyondKeys :
                /\ \A u \in Range(uniques) : Count(s_norm, k) <= Count(s_norm, u)
                /\ k \notin DOMAIN assigned
                /\ ClustersOf(k) = {}
                /\ \A v \in DOMAIN assigned : assigned[v] # k
    /\ (Returned /\ Cardinality(Keys) > max_uniques) =>
          \A i, j \in Rows :
              (s_norm[i] \in BeyondKeys /\ s_norm[j] # s_norm[i]) =>
                  /\ canon_norm[i] = s_norm[i]
                  /\ canon_norm[j] # s_norm[i]
                  /\ canon_final[j] # canon_final[i]
                  /\ Norm(canon_final[i]) = s_norm[i]

\* C22 witness: a returned run with a key beyond the cutoff that matches a
\* seed inside the cutoff and still keeps its own canonical
C22_Witness ==
    /\ Returned
    /\ \E i, j \in Rows :
          /\ s_norm[i] \in BeyondKeys
          /\ s_norm[j] \in Seeds
          /\ Match(s_norm[j], s_norm[i])
          /\ canon_norm[i] = s_norm[i]
          /\ canon_final[j] # canon_final[i]

\* the distinct raw values of the input, a null counted as ""
RawValues == {RawOf(i) : i \in Rows}

MappingRows == 1..Len(mapping_df)

\* C23: the mapping table returned by harmonize_names has exactly one row per
\* distinct raw value observed in the input (a null counted as the empty
\* string): every distinct raw value appears, and none appears in two rows.
C23_OneRowPerRaw ==
    Returned =>
        /\ {mapping_df[p].raw : p \in MappingRows} = RawValues
        /\ Len(mapping_df) = Cardinality(RawValues)
        /\ \A p, q \in MappingRows : mapping_df[p].raw = mapping_df[q].raw => p = q

\* C23 witness: a returned run over a column with a repeated raw value and
\* two raw values under one canonical, the table shorter than the column
C23_Witness ==
    /\ Returned
    /\ \E i, j \in Rows : i # j /\ RawOf(i) = RawOf(j)
    /\ \E p, q \in MappingRows :
          p # q /\ mapping_df[p].canonical = mapping_df[q].canonical
    /\ Len(mapping_df) < Len(series)

\* C24 (as claimed): in every entry of the mapping table, the normalized
\* field is normalize_text applied to that entry's own raw value, alongside
\* the raw value and its canonical label.
C24_NormalizedAsClaimed ==
    Returned =>
        \A p \in MappingRows :
            /\ mapping_df[p].canon_norm = Norm(mapping_df[p].raw)
            /\ \E i \in Rows : /\ mapping_df[p].raw = RawOf(i)
                               /\ mapping_df[p].canonical = canon_final[i]

\* C24 (amended): in every entry of the mapping table, the field beside the
\* raw value and its canonical label is the canonical normalized key of the
\* raw value: the seed of the cluster that holds normalize_text(raw), and
\* normalize_text(raw) itself when that key is in no cluster (beyond the
\* max_uniques cutoff); it is normalize_text(raw) for every entry only when
\* no two keys were merged.
C24_CanonNormField ==
    Returned =>
        /\ \A p \in MappingRows :
              LET k == Norm(mapping_df[p].raw)
              IN /\ mapping_df[p].canon_norm = Get(assigned, k, k)
                 /\ \E i \in Rows : /\ mapping_df[p].raw = RawOf(i)
                                    /\ mapping_df[p].canon_norm = canon_norm[i]
                                    /\ mapping_df[p].canonical = canon_final[i]
        /\ (\A p \in MappingRows :
               mapping_df[p].canon_norm = Norm(mapping_df[p].raw))
              <=> (\A c \in 1..Len(clusters) : Len(clusters[c]) = 1)

\* C24 witness: a returned run whose table has an entry with a field that is
\* not the normalized form of its raw value, and an entry of a key beyond the
\* cutoff
C24_Witness ==
    /\ Returned
    /\ \E p \in MappingRows :
          mapping_df[p].canon_norm # Norm(mapping_df[p].raw)
    /\ \E p \in MappingRows :
          Norm(mapping_df[p].raw) \in BeyondKeys

\* C28: after the clustering loop no two distinct cluster seeds satisfy the
\* merge condition: for a seed s processed before a seed t it is not the case
\* that len(s) >= min_len, len(t) >= min_len and similarity(s, t) >= threshold.
C28_SeedsApart ==
    Clustering =>
        /\ \A c, e \in 1..Len(clusters) :
              c < e => /\ clusters[c][1] # clusters[e][1]
                       /\ ~Match(clusters[c][1], clusters[e][1])
        /\ Returned => Seeds \subseteq Range(uniques)

\* C28 witness: a returned run with two seeds long enough to merge whose
\* similarity stays below the threshold, beside a cluster that did merge
C28_Witness ==
    /\ Returned
    /\ \E c, e \in 1..Len(clusters) :
          /\ c < e
          /\ LongEnough(clusters[c][1]) /\ LongEnough(clusters[e][1])
          /\ ~Similar(clusters[c][1], clusters[e][1])
          /\ Sim(clusters[c][1], clusters[e][1])[1] > 0
    /\ \E c \in 1..Len(clusters) : Len(clusters[c]) >= 2

\* C29: the canonical value returned for a row is always a raw string that
\* occurs in the input (a null counted as the empty string) among the rows of
\* that row's own cluster; consequently every cluster has at least one row
\* with changed = false.
C29_CanonicalIsRaw ==
    Returned =>
        /\ \A i \in Rows :
              \E j \in GroupOf(i) :
                  /\ RawOf(j) = canon_final[i]
                  /\ \/ s_norm[j] = s_norm[i]
                     \/ /\ ClustersOf(s_norm[j]) # {}
                        /\ ClustersOf(s_norm[j]) = ClustersOf(s_norm[i])
                  /\ changed_mask[j] = FALSE
        /\ \A c \in 1..Len(clusters) :
              \E j \in Rows : s_norm[j] \in Range(clusters[c]) /\ changed_mask[j] = FALSE

\* C29 witness: a returned run with a cluster of two keys, a changed row whose
\* canonical is the raw string of another row of the cluster, and a canonical
\* that is not a normalized key
C29_Witness ==
    /\ Returned
    /\ \E i, j \in Rows :
          /\ s_norm[i] # s_norm[j]
          /\ ClustersOf(s_norm[i]) # {}
          /\ ClustersOf(s_norm[i]) = ClustersOf(s_norm[j])
          /\ changed_mask[i] /\ ~changed_mask[j]
          /\ canon_final[i] = RawOf(j)
    /\ \E i \in Rows : canon_final[i] # canon_norm[i]

-----------------------------------------------------------------------------
(* Properties of abc_classification, checked under SpecABC                 *)

AbcReturned == abc_pc = "done"

AbcRows == 1..Len(df)

Classes == {"A", "B", "C"}

\* A before B before C
ClassRank(c) == CASE c = "A" -> 1 [] c = "B" -> 2 [] OTHER -> 3

\* the spend of a set of rows, NaN counted as 0
RECURSIVE RowSpend(_)
RowSpend(I) ==
    IF I = {} THEN 0
    ELSE LET i == CHOOSE i \in I : TRUE
         IN (IF df[i][2] = NullCell THEN 0 ELSE df[i][2][1]) + RowSpend(I \ {i})

\* the group keys of the input and the spend of one group
GroupKeys == {df[i][1] : i \in AbcRows}
GroupSpend(k) == RowSpend({i \in AbcRows : df[i][1] = k})
TotalSpend == RowSpend(AbcRows)

\* the spend of the groups ranked at positions 1..g of agg
RECURSIVE GroupSpendUpTo(_)
GroupSpendUpTo(g) == IF g = 0 THEN 0 ELSE GroupSpend(agg[g][1]) + GroupSpendUpTo(g - 1)

\* cumulative share n/tot <= p/100, for a total tot # 0
AtMost(n, tot, p) ==
    \/ tot > 0 /\ n * 100 <= p * tot
    \/ tot < 0 /\ n * 100 >= p * tot

\* position of group k in the ranking
RankPos(k) == CHOOSE g \in 1..Len(agg) : agg[g][1] = k

\* cumulative spend of group k in the ranking
CumSpend(k) == GroupSpendUpTo(RankPos(k))

\* the cumulative spend of every group
CumSpends == [k \in GroupKeys |-> CumSpend(k)] @@ <<>>

\* the call returned classified groups (the total is not zero)
Classified == abc_pc = "done" /\ TotalSpend # 0

\* agg is the ranking of all groups by descending spend
IsRanking ==
    /\ {agg[g][1] : g \in 1..Len(agg)} = GroupKeys
    /\ Len(agg) = Cardinality(GroupKeys)
    /\ \A g \in 1..Len(agg) : agg[g][2] = GroupSpend(agg[g][1])
    /\ \A g, h \in 1..Len(agg) : g < h => agg[g][2] >= agg[h][2]

\* C4: each group is classified by its cumulative share of total spend in the
\* descending-spend ranking: share <= a_cut gives A, a_cut < share <= b_cut
\* gives B, share > b_cut gives C; spends 100, 50, 30, 20 with cutoffs
\* 0.8 / 0.95 give A, A, B, C.
C4_ClassByShare ==
    /\ Classified =>
          /\ IsRanking
          /\ DOMAIN cls = GroupKeys
          /\ LET tot == TotalSpend
                 cum == CumSpends
             IN \A k \in GroupKeys :
                   cls[k] = IF AtMost(cum[k], tot, a_cut) THEN "A"
                            ELSE IF AtMost(cum[k], tot, b_cut) THEN "B"
                            ELSE "C"
    /\ (AbcReturned /\ df = Scenario2 /\ a_cut = DefaultACut /\ b_cut = DefaultBCut)
          => result = <<"A", "A", "B", "C">>

\* C4 witness: a classification that uses all three classes, and the
\* scenario's result
C4_Witness ==
    /\ Classified
    /\ {cls[k] : k \in DOMAIN cls} = Classes
    /\ AbcReturned /\ df = Scenario2 /\ result = <<"A", "A", "B", "C">>

\* C5: for any two groups X, Y of one call, if X's cumulative share is <= Y's
\* cumulative share then X's class is never worse than Y's (A < B < C).
C5_Monotone ==
    Classified =>
        LET tot == TotalSpend
            cum == CumSpends
        IN \A x, y \in DOMAIN cls :
              (\/ tot > 0 /\ cum[x] <= cum[y]
               \/ tot < 0 /\ cum[x] >= cum[y])
                  => ClassRank(cls[x]) <= ClassRank(cls[y])

\* C5 witness: two groups of different cumulative share and different class
C5_Witness ==
    /\ Classified
    /\ \E x, y \in DOMAIN cls :
          /\ TotalSpend > 0 /\ CumSpend(x) < CumSpend(y)
          /\ ClassRank(cls[x]) < ClassRank(cls[y])

\* C6: the call returns exactly one class from {A, B, C} for every input row,
\* aligned to the input rows, and the spend of the groups classified A, B and
\* C together equals the total spend: no group is left out or counted twice.
C6_Coverage ==
    /\ AbcReturned =>
          /\ ~abc_raised
          /\ Len(result) = Len(df)
          /\ \A i \in AbcRows : result[i] \in Classes
          /\ RowSpend({i \in AbcRows : result[i] = "A"})
               + RowSpend({i \in AbcRows : result[i] = "B"})
               + RowSpend({i \in AbcRows : result[i] = "C"}) = TotalSpend
    /\ Classified =>
          /\ DOMAIN cls = GroupKeys
          /\ \A k \in GroupKeys : cls[k] \in Classes
          /\ SumSeq(Sums(SelectSeq(agg, LAMBDA e : cls[e[1]] = "A")))
               + SumSeq(Sums(SelectSeq(agg, LAMBDA e : cls[e[1]] = "B")))
               + SumSeq(Sums(SelectSeq(agg, LAMBDA e : cls[e[1]] = "C"))) = TotalSpend

\* C6 witness: a returned call over several groups, one of them the null-key
\* group, with rows in more than one class
C6_Witness ==
    /\ AbcReturned /\ TotalSpend # 0
    /\ NullCell \in GroupKeys
    /\ Cardinality(GroupKeys) >= 2
    /\ Cardinality(Range(result)) >= 2

\* every spend value of the input is null
AllSpendNull == \A i \in AbcRows : df[i][2] = NullCell

\* C7: when the total spend over all groups is zero, or every spend value is
\* null, every input row is assigned class C and no error is raised.
C7_Degenerate ==
    (AbcReturned /\ (TotalSpend = 0 \/ AllSpendNull)) =>
        /\ ~abc_raised
        /\ Len(result) = Len(df)
        /\ \A i \in AbcRows : result[i] = "C"

\* C7 witness: a returned call whose groups have non-zero spends that cancel
\* to a zero total
C7_Witness ==
    /\ AbcReturned /\ TotalSpend = 0
    /\ \E k \in GroupKeys : GroupSpend(k) # 0
    /\ \A i \in AbcRows : result[i] = "C"

\* C7 witness, second case: a returned call whose spend values are all null
C7_WitnessAllNull ==
    /\ AbcReturned /\ AllSpendNull
    /\ \A i \in AbcRows : result[i] = "C"

\* C10 (as claimed): abc_classification fails with a validation error,
\* instead of returning classes, whenever its cutoffs violate
\* 0 < a_cut < b_cut <= 1.
C10_FailFast ==
    (AbcReturned /\ ~CutsValid(a_cut, b_cut)) => abc_raised

\* C14 (as claimed): every row inherits its group's class: any two input rows
\* with the same group key receive the same class, which is the class
\* computed for that key's aggregated spend.
C14_InheritClass ==
    Classified =>
        /\ \A i, j \in AbcRows : df[i][1] = df[j][1] => result[i] = result[j]
        /\ \A i \in AbcRows : df[i][1] \in DOMAIN cls /\ result[i] = cls[df[i][1]]

\* C15 (as claimed): rows whose group key is null are not dropped: they are
\* aggregated as one group of their own, ranked with the other groups, and
\* each such row receives the class computed for the null-key group from its
\* cumulative share.
C15_NullKeyGroup ==
    (Classified /\ NullCell \in GroupKeys) =>
        /\ Len(result) = Len(df)
        /\ Cardinality({g \in 1..Len(agg) : agg[g][1] = NullCell}) = 1
        /\ agg[RankPos(NullCell)][2] = GroupSpend(NullCell)
        /\ LET tot == TotalSpend
               cum == CumSpend(NullCell)
               c == IF AtMost(cum, tot, a_cut) THEN "A"
                    ELSE IF AtMost(cum, tot, b_cut) THEN "B"
                    ELSE "C"
           IN \A i \in AbcRows : df[i][1] = NullCell => result[i] = c

\* the call has aggregated the rows
Aggregated == abc_pc \in {"aggregated", "classified", "done"}

\* the second call, on rows changed in the way how, has returned
ReturnedAgain(how) == abc_pc = "done" /\ abc_run = 2 /\ change = how

\* C25: a null spend is treated as 0 throughout: a row with null spend adds 0
\* to its group's sum and 0 to the grand total, so adding such a row to an
\* existing group, or removing one from it, changes no group's cumulative
\* share or class.
C25_NullSpendIsZero ==
    /\ Aggregated =>
          /\ \A g \in 1..Len(agg) : agg[g][2] = GroupSpend(agg[g][1])
          /\ Total(agg) = TotalSpend
    /\ (ReturnedAgain("null_row_added") \/ ReturnedAgain("null_row_removed")) =>
          /\ agg = first.agg
          /\ \A g \in 1..Len(agg) : CumSum(agg, g) = CumSum(first.agg, g)
          /\ Total(agg) = Total(first.agg)
          /\ cls = first.cls

\* C25 witness: a second call with one more row of null spend returned, with
\* groups in two classes and a positive spend in the group of the new row
C25_Witness ==
    /\ ReturnedAgain("null_row_added")
    /\ Len(df) = Len(first.df) + 1
    /\ Cardinality({cls[k] : k \in DOMAIN cls}) >= 2
    /\ \E i \in AbcRows : df[i][2] = NullCell /\ GroupSpend(df[i][1]) > 0

\* C26 (as claimed): groups are ranked by total spend descending, groups of
\* equal spend by group key ascending, so the class of a group does not depend
\* on the order of the input rows: a call on the same rows in another order
\* gives every group the same class.
C26_OrderIndependent ==
    /\ Aggregated =>
          \A g, h \in 1..Len(agg) :
              g < h => \/ agg[g][2] > agg[h][2]
                       \/ agg[g][2] = agg[h][2] /\ KeyLess(agg[g][1], agg[h][1])
    /\ ReturnedAgain("permuted") => cls = first.cls

\* C30: with a non-zero total spend the lowest-ranked group has cumulative
\* share exactly 1 and is classified C whenever b_cut < 1; when all rows
\* belong to a single group, every row is classified C rather than A.
C30_LastGroupIsC ==
    Classified =>
        LET n == Len(agg)
            k == agg[n][1]
        IN /\ n >= 1
           /\ CumSum(agg, n) = Total(agg)
           /\ GroupSpendUpTo(n) = TotalSpend
           /\ b_cut < 100 =>
                 /\ cls[k] = "C"
                 /\ \A i \in AbcRows : df[i][1] = k => result[i] = "C"
                 /\ Cardinality(GroupKeys) = 1 => \A i \in AbcRows : result[i] = "C"

\* C30 witness: a returned call on rows of a single group of positive spend,
\* every row classified C
C30_Witness ==
    /\ Classified
    /\ Cardinality(GroupKeys) = 1
    /\ NullCell \notin GroupKeys
    /\ TotalSpend > 0
    /\ Len(df) >= 2
    /\ \A i \in AbcRows : result[i] = "C"

-----------------------------------------------------------------------------
(* Properties of harmonize_names under parameters outside the contract,    *)
(* checked under SpecBadParams                                             *)

\* C11 (as claimed): harmonize_names fails with a validation error, instead
\* of returning a result, whenever threshold is outside [0, 1] or min_len is
\* less than 1.
C11_FailFast ==
    (Returned /\ ~ParamsValid(threshold, min_len)) => raised

-----------------------------------------------------------------------------
(* Properties of the harmonization pages, checked under SpecPage           *)

\* C16 (as claimed): after Run Harmonization on a harmonization page, the
\* dataset stored in session_state["df_harmonized"] contains every row of the
\* loaded purchase register, for every selection of actions and options.
C16_AllRowsStored ==
    page_pc = "stored" =>
        /\ Len(df_harmonized) = Len(register)
        /\ \A i \in 1..Len(register) : df_harmonized[i].row = i

-----------------------------------------------------------------------------
(* Properties of normalize_text, checked under SpecNormalize               *)

\* lower-case letters, digits and single spaces, no space at either end
NormalForm(s) ==
    /\ \A i \in 1..Len(s) : s[i] \in Letters \cup Digits \cup {Space}
    /\ s # <<>> => s[1] # Space /\ s[Len(s)] # Space
    /\ \A i \in 1..(Len(s) - 1) : ~(s[i] = Space /\ s[i + 1] = Space)

\* C27: normalize_text is idempotent and its result is in normal form: for
\* every input string or null the result contains only lower-case letters,
\* digits and single spaces with no leading or trailing space, and
\* normalize_text(normalize_text(x)) = normalize_text(x).
C27_NormalForm ==
    norm_pc = "done" =>
        /\ NormalForm(normalized)
        /\ normalize_text(normalized) = normalized
        /\ norm_run = 2 => normalized = text
        /\ isna(text) => normalized = <<>>

\* C27 witness: the second call returned, on a first result made of a
\* letter, a space and a digit
C27_Witness ==
    /\ norm_pc = "done"
    /\ norm_run = 2
    /\ text = <<"a", Space, "1">>
    /\ normalized = text

=============================================================================
